---- MODULE Spec2Model ----
(***************************************************************************)
(* Model of the FTP client session of wpull (src/wpull/ftp/client.py).     *)
(*                                                                         *)
(* Each Session runs fetch or fetch_file_listing as a coroutine; the model *)
(* has one action per step between two suspension points.  The sessions    *)
(* share one connection pool.  The pool, the Commander and the Body are    *)
(* collaborators of the Session whose code is outside src/; they are       *)
(* modelled from their interface contracts.                                *)
(***************************************************************************)
EXTENDS Integers, Sequences, FiniteSets, TLC

\* ---------------------------------------------------------------- bounds
MaxBytes == 1           \* bytes one command attempt writes to the body
MaxRelease == 2         \* clean()/close() calls made on the sessions

\* The sessions interleaving on the shared pool.
Sessions == {1, 2}

\* The sessions whose awaited operations can fail and whose call can be
\* cancelled.  The calls of the other sessions run to completion; the pool
\* sees the same operations from them as from a call that fails.
Faulty == {1}

\* Connection handles.  A new connection is named after the check_out that
\* creates it: the control connection of session s, or the data connection
\* of a Command of session s.
Commands == {"RETR", "MLSD", "LIST"}
Conns == {<<"control", s>> : s \in Sessions}
            \cup {<<cmd, s>> : cmd \in Commands, s \in Sessions}
None == <<"none", 0>>

\* The (host, port) a connection is pooled by.  The control connections
\* of all sessions go to the same server; the server names a data address
\* of its own for every transfer.
Key(c) == IF c[1] = "control" THEN <<"control", 0>> ELSE c
IsData(c) == c \in Conns /\ c[1] # "control"

\* ------------------------------------------------------------ reply codes
syntax_error_command_unrecognized == 500
command_not_implemented == 502
requested_action_not_taken == 550
Codes == {syntax_error_command_unrecognized, command_not_implemented,
          requested_action_not_taken}

\* -------------------------------------------------------------- errors
NoError == [type |-> "none", code |-> 0]
FTPServerError(code) == [type |-> "FTPServerError", code |-> code]
AuthenticationError(code) == [type |-> "AuthenticationError", code |-> code]
ConnectionError == [type |-> "ConnectionError", code |-> 0]
ProtocolError == [type |-> "ProtocolError", code |-> 0]
CancelledError == [type |-> "CancelledError", code |-> 0]
CheckInError == [type |-> "CheckInError", code |-> 0]

ServerErrors == {FTPServerError(c) : c \in Codes}
Errors == ServerErrors \cup {AuthenticationError(c) : c \in Codes}
            \cup {ConnectionError, ProtocolError, CancelledError, CheckInError}

\* ---------------------------------------------------------------- state
VARIABLES
    pool,               \* the shared ConnectionPool
    closed,             \* connections on which close() has been called
    pc,                 \* where each session's coroutine is suspended
    kind,               \* "fetch" or "listing": the call the session runs
    recorder_session,   \* whether each session has a recorder session
    connection,         \* Session._connection (0 is None)
    control_observer,   \* control_data_callback is on the control stream
    command,            \* the Command _fetch_with_command is running
    cmds,               \* Commands handed to _fetch_with_command, in order
    data_connection,    \* _fetch_with_command's data_connection (0 is None)
    data_stream,        \* _fetch_with_command's data_stream is not None
    data_observer,      \* data_callback is on the latest data stream
    body,               \* response.body: [data, pos]
    files,              \* response.files
    reply,              \* response.reply
    error,              \* the FTPServerError caught in fetch_file_listing
    err,                \* the error the call raised to its caller
    events,             \* structural events given to the recorder session
    raised,             \* history: the errors raised into the call, in order
    trace,              \* history: the phases started and the events given
    outcomes,           \* history: the outcome of every awaited operation
    released,           \* history: what the finally blocks did, in order
    calls               \* history: the clean()/close() calls on the session

vars == <<pool, closed, pc, kind, recorder_session, connection,
          control_observer, command, cmds, data_connection, data_stream,
          data_observer, body, files, reply, error, err, events, raised,
          trace, outcomes, released, calls>>

\* ------------------------------------------------------ ConnectionPool
\* lent[c] is the session c is checked out to (0: not checked out), ready
\* the connections waiting for reuse.
EmptyPool == [lent |-> [c \in Conns |-> 0], ready |-> {}]

\* ConnectionPool.check_out: the connections a check_out for the (host,
\* port) of new can return: a connection of that key that is ready for
\* reuse, or the newly established connection.
CheckOutChoices(p, new) ==
    {c \in p.ready : Key(c) = Key(new)} \cup {new}

check_out(p, c, s) == [p EXCEPT !.lent[c] = s, !.ready = @ \ {c}]

\* ConnectionPool.check_in raises when the connection is not checked out.
CheckInRaises(p, c) == p.lent[c] = 0

\* ConnectionPool.check_in: the connection is no longer checked out and is
\* ready for reuse.
check_in(p, c) == [p EXCEPT !.lent[c] = 0, !.ready = @ \cup {c}]

\* ----------------------------------------------------------------- Body
EmptyBody == [data |-> <<>>, pos |-> 0]

Bytes(cmd, n) == [i \in 1..n |-> cmd]

BodyWrite(b, bytes) ==
    [data |-> SubSeq(b.data, 1, b.pos) \o bytes
                \o SubSeq(b.data, b.pos + Len(bytes) + 1, Len(b.data)),
     pos |-> b.pos + Len(bytes)]

BodySeek(b, p) == [b EXCEPT !.pos = p]

BodyTruncate(b) == [b EXCEPT !.data = SubSeq(b.data, 1, b.pos)]

BodyRead(b) == [b EXCEPT !.pos = Len(b.data)]

\* -------------------------------------------------------------- Session
\* Session.__init__ of every session, on a new pool.
InitSessions ==
    /\ pool = EmptyPool
    /\ closed = {}
    /\ pc = [s \in Sessions |-> "idle"]
    /\ kind = [s \in Sessions |-> "none"]
    /\ connection = [s \in Sessions |-> None]
    /\ control_observer = [s \in Sessions |-> FALSE]
    /\ command = [s \in Sessions |-> "none"]
    /\ cmds = [s \in Sessions |-> <<>>]
    /\ data_connection = [s \in Sessions |-> None]
    /\ data_stream = [s \in Sessions |-> FALSE]
    /\ data_observer = [s \in Sessions |-> FALSE]
    /\ body = [s \in Sessions |-> EmptyBody]
    /\ files = [s \in Sessions |-> "none"]
    /\ reply = [s \in Sessions |-> "none"]
    /\ error = [s \in Sessions |-> NoError]
    /\ err = [s \in Sessions |-> NoError]
    /\ events = [s \in Sessions |-> <<>>]
    /\ raised = [s \in Sessions |-> <<>>]
    /\ trace = [s \in Sessions |-> <<>>]
    /\ outcomes = [s \in Sessions |-> <<>>]
    /\ released = [s \in Sessions |-> <<>>]
    /\ calls = [s \in Sessions |-> <<>>]

\* The sessions of a client are all given a recorder session, or none is.
Init ==
    /\ recorder_session \in {[s \in Sessions |-> b] : b \in BOOLEAN}
    /\ InitSessions

\* The suspension points of a call.
InPrepare == {"check_out", "reconnect", "login"}
InFetchWithCommand == {"setup_data_stream", "connection_factory",
                       "open_data_stream", "read_stream"}
Suspended == InPrepare \cup InFetchWithCommand
Ended == {"done", "failed"}

\* The errors that can be raised into the coroutine at a suspension point.
FailuresAt(p) ==
    {CancelledError} \cup
    CASE p = "check_out" -> {ConnectionError}
      [] p = "reconnect" -> {ConnectionError}
      [] p = "login" -> {AuthenticationError(c) : c \in Codes}
                          \cup ServerErrors
      [] p = "setup_data_stream" -> ServerErrors \cup {ConnectionError}
      [] p = "connection_factory" -> {ConnectionError}
      [] p = "open_data_stream" -> {ConnectionError}
      [] p = "read_stream" -> ServerErrors \cup {ConnectionError, ProtocolError}
      [] OTHER -> {}

\* An entry of the history of outcomes: NoError when the awaited operation
\* returned, else the error raised; n is the number of bytes the data
\* stream delivered.
Outcome(e, n) == [error |-> e, wrote |-> n]

Returned == Outcome(NoError, 0)

\* A call of the recorder session, if there is one.
Emit(tr, rec, ev) == IF rec THEN Append(tr, ev) ELSE tr

\* Session.fetch / Session.fetch_file_listing up to the first suspension:
\* the check_out of the control connection in _init_stream.
Call(s, k) ==
    /\ pc[s] = "idle"
    /\ connection[s] = None                 \* assert not self._connection
    /\ pc' = [pc EXCEPT ![s] = "check_out"]
    /\ kind' = [kind EXCEPT ![s] = k]
    /\ trace' = [trace EXCEPT ![s] = Append(@, "check_out")]
    /\ UNCHANGED <<pool, closed, recorder_session, connection,
                   control_observer, command, cmds, data_connection,
                   data_stream, data_observer, body, files, reply, error,
                   err, events, raised, calls, outcomes,
                   released>>

fetch(s) == Call(s, "fetch")

fetch_file_listing(s) == Call(s, "listing")

\* _init_stream after the check_out, then _prepare_fetch up to the
\* reconnect of _log_in.
init_stream(s) ==
    /\ pc[s] = "check_out"
    /\ \E c \in CheckOutChoices(pool, <<"control", s>>) :
        /\ pool' = check_out(pool, c, s)
        /\ connection' = [connection EXCEPT ![s] = c]
    /\ control_observer' = [control_observer EXCEPT ![s] = recorder_session[s]]
    /\ events' = [events EXCEPT ![s] =
                    Emit(@, recorder_session[s], "begin_control")]
    /\ trace' = [trace EXCEPT ![s] =
                    Append(Emit(@, recorder_session[s], "begin_control"),
                           "reconnect")]
    /\ outcomes' = [outcomes EXCEPT ![s] = Append(@, Returned)]
    /\ pc' = [pc EXCEPT ![s] = "reconnect"]
    /\ UNCHANGED <<closed, kind, recorder_session, command, cmds,
                   data_connection, data_stream, data_observer, body, files,
                   reply, error, err, raised, calls,
                   released>>

\* The Command a call starts with.
FirstCommand(k) == IF k = "fetch" THEN "RETR" ELSE "MLSD"

\* Mutant of log_in: the call goes on after the reconnect without login.
log_in_NoLogin(s) ==
    /\ pc[s] = "reconnect"
    /\ closed' = closed \ {connection[s]}
    /\ body' = [body EXCEPT ![s] = EmptyBody]
    /\ events' = [events EXCEPT ![s] =
                    Emit(@, recorder_session[s], "pre_response")]
    /\ trace' = [trace EXCEPT ![s] =
                    Append(Emit(@, recorder_session[s], "pre_response"),
                           FirstCommand(kind[s]))]
    /\ outcomes' = [outcomes EXCEPT ![s] = Append(@, Returned)]
    /\ command' = [command EXCEPT ![s] = FirstCommand(kind[s])]
    /\ cmds' = [cmds EXCEPT ![s] = Append(@, FirstCommand(kind[s]))]
    /\ data_connection' = [data_connection EXCEPT ![s] = None]
    /\ data_stream' = [data_stream EXCEPT ![s] = FALSE]
    /\ pc' = [pc EXCEPT ![s] = "setup_data_stream"]
    /\ UNCHANGED <<pool, kind, recorder_session, connection,
                   control_observer, data_observer, files, reply, error, err,
                   raised, calls,
                   released>>

\* _log_in between reconnect and login.  Commander.reconnect has connected
\* the control connection if it was closed.
log_in(s) ==
    /\ pc[s] = "reconnect"
    /\ closed' = closed \ {connection[s]}
    /\ pc' = [pc EXCEPT ![s] = "login"]
    /\ trace' = [trace EXCEPT ![s] = Append(@, "login")]
    /\ outcomes' = [outcomes EXCEPT ![s] = Append(@, Returned)]
    /\ UNCHANGED <<pool, kind, recorder_session, connection,
                   control_observer, command, cmds, data_connection,
                   data_stream, data_observer, body, files, reply, error,
                   err, events, raised, calls,
                   released>>

\* The rest of _prepare_fetch after the login, then the start of
\* _fetch_with_command up to setup_data_stream.
prepare_fetch(s) ==
    /\ pc[s] = "login"
    /\ body' = [body EXCEPT ![s] = EmptyBody]
    /\ events' = [events EXCEPT ![s] =
                    Emit(@, recorder_session[s], "pre_response")]
    /\ trace' = [trace EXCEPT ![s] =
                    Append(Emit(@, recorder_session[s], "pre_response"),
                           FirstCommand(kind[s]))]
    /\ outcomes' = [outcomes EXCEPT ![s] = Append(@, Returned)]
    /\ command' = [command EXCEPT ![s] = FirstCommand(kind[s])]
    /\ cmds' = [cmds EXCEPT ![s] = Append(@, FirstCommand(kind[s]))]
    /\ data_connection' = [data_connection EXCEPT ![s] = None]
    /\ data_stream' = [data_stream EXCEPT ![s] = FALSE]
    /\ pc' = [pc EXCEPT ![s] = "setup_data_stream"]
    /\ UNCHANGED <<pool, closed, kind, recorder_session, connection,
                   control_observer, data_observer, files, reply, error, err,
                   raised, calls,
                   released>>

\* setup_data_stream has negotiated the address and calls
\* connection_factory, which waits for the pool.
setup_data_stream(s) ==
    /\ pc[s] = "setup_data_stream"
    /\ pc' = [pc EXCEPT ![s] = "connection_factory"]
    /\ outcomes' = [outcomes EXCEPT ![s] = Append(@, Returned)]
    /\ UNCHANGED <<pool, closed, kind, recorder_session, connection,
                   control_observer, command, cmds, data_connection,
                   data_stream, data_observer, body, files, reply, error,
                   err, events, raised, calls, trace,
                   released>>

\* connection_factory after the check_out of the data connection.
connection_factory(s) ==
    /\ pc[s] = "connection_factory"
    /\ \E c \in CheckOutChoices(pool, <<command[s], s>>) :
        /\ pool' = check_out(pool, c, s)
        /\ data_connection' = [data_connection EXCEPT ![s] = c]
    /\ pc' = [pc EXCEPT ![s] = "open_data_stream"]
    /\ outcomes' = [outcomes EXCEPT ![s] = Append(@, Returned)]
    /\ UNCHANGED <<closed, kind, recorder_session, connection,
                   control_observer, command, cmds, data_stream,
                   data_observer, body, files, reply, error, err, events,
                   raised, calls, trace,
                   released>>

\* setup_data_stream returns the data stream; the observer is added and
\* read_stream is started.
open_data_stream(s) ==
    /\ pc[s] = "open_data_stream"
    /\ data_stream' = [data_stream EXCEPT ![s] = TRUE]
    /\ data_observer' = [data_observer EXCEPT ![s] = recorder_session[s]]
    /\ pc' = [pc EXCEPT ![s] = "read_stream"]
    /\ outcomes' = [outcomes EXCEPT ![s] = Append(@, Returned)]
    /\ UNCHANGED <<pool, closed, kind, recorder_session, connection,
                   control_observer, command, cmds, data_connection, body,
                   files, reply, error, err, events, raised, calls, trace,
                   released>>

\* Mutant of ReleaseData: the data connection is closed, not checked in.
ReleaseData_CloseOnly(p, cl, dc) ==
    IF dc = None THEN [pool |-> p, closed |-> cl, raised |-> FALSE]
    ELSE [pool |-> p, closed |-> cl \cup {dc}, raised |-> FALSE]

\* The finally block of _fetch_with_command on connection dc: close(), then
\* check_in.  raised tells that check_in raised.
ReleaseData(p, cl, dc) ==
    IF dc = None THEN [pool |-> p, closed |-> cl, raised |-> FALSE]
    ELSE IF CheckInRaises(p, dc)
         THEN [pool |-> p, closed |-> cl \cup {dc}, raised |-> TRUE]
         ELSE [pool |-> check_in(p, dc),
               closed |-> cl \cup {dc}, raised |-> FALSE]

\* Mutant of Finally: _fetch_with_command has no finally block.
Finally_Nothing(s) == [pool |-> pool, closed |-> closed, raised |-> FALSE]

\* Mutant of Finally: without a data connection, the finally block
\* releases the control connection.
Finally_ReleaseControl(s) ==
    IF pc[s] \in InFetchWithCommand
    THEN ReleaseData(pool, closed,
                     IF data_connection[s] = None THEN connection[s]
                     ELSE data_connection[s])
    ELSE [pool |-> pool, closed |-> closed, raised |-> FALSE]

\* The finally block runs when the coroutine is inside the try statement.
Finally(s) ==
    IF pc[s] \in InFetchWithCommand
    THEN ReleaseData(pool, closed, data_connection[s])
    ELSE [pool |-> pool, closed |-> closed, raised |-> FALSE]

\* Mutant of FinallyOps: the data connection is checked in, then closed.
FinallyOps_CheckInFirst(s) ==
    IF pc[s] \in InFetchWithCommand
    THEN (IF data_stream[s] THEN <<<<"clear", data_connection[s]>>>>
          ELSE <<>>)
         \o (IF data_connection[s] # None
             THEN <<<<"check_in", data_connection[s]>>,
                    <<"close", data_connection[s]>>>>
             ELSE <<>>)
    ELSE <<>>

\* What the finally block of _fetch_with_command does, in order: it
\* clears the observers of the data stream, if there is one, then closes
\* and checks in the data connection, if there is one.
FinallyOps(s) ==
    IF pc[s] \in InFetchWithCommand
    THEN (IF data_stream[s] THEN <<<<"clear", data_connection[s]>>>>
          ELSE <<>>)
         \o (IF data_connection[s] # None
             THEN <<<<"close", data_connection[s]>>,
                    <<"check_in", data_connection[s]>>>>
             ELSE <<>>)
    ELSE <<>>

\* Mutant of ClearObserver: the observers are cleared when there is no data
\* stream.
ClearObserver_NoStream(s) ==
    IF pc[s] \in InFetchWithCommand /\ ~data_stream[s] THEN FALSE
    ELSE data_observer[s]

\* Mutant of ClearObserver: the observers are never cleared.
ClearObserver_Never(s) == data_observer[s]

\* The finally block clears the observers of the data stream, if any.
ClearObserver(s) ==
    IF pc[s] \in InFetchWithCommand /\ data_stream[s] THEN FALSE
    ELSE data_observer[s]

\* fetch_file_listing retries with LIST for these reply codes.
FallbackCodes == {syntax_error_command_unrecognized, command_not_implemented}

\* Mutant of Caught: the except clause catches every error of the MLSD
\* attempt.
Caught_AnyError(cmd, e) == cmd = "MLSD"

\* Mutant of Caught: the try statement encloses _prepare_fetch, so an
\* FTPServerError raised before the first Command is caught too.
Caught_BeforeCommand(cmd, e) ==
    cmd \in {"MLSD", "none"} /\ e.type = "FTPServerError"

\* Mutant of Caught: an FTPServerError of the LIST attempt is caught too.
Caught_AnyCommand(cmd, e) == e.type = "FTPServerError"

\* The except clause of fetch_file_listing catches error e of the MLSD
\* attempt.
Caught(cmd, e) == cmd = "MLSD" /\ e.type = "FTPServerError"

\* Mutant of ResetBody: the body is truncated where it stands, not rewound.
ResetBody_TruncateOnly(b) == BodyTruncate(b)

\* Mutant of ResetBody: the body is rewound but not truncated.
ResetBody_SeekOnly(b) == BodySeek(b, 0)

\* The except clause resets the body.
ResetBody(b) == BodyTruncate(BodySeek(b, 0))

\* Mutant of Retry: every caught error is retried with LIST.
Retry_Always(e) == TRUE

\* The except clause calls _get_list_listing for the caught error e, else
\* re-raises it.
Retry(e) == e.code \in FallbackCodes

\* _clean_up_fetch
CleanUpBody(b) == BodySeek(b, 0)

\* Mutant of CleanUpEvents: end_control is called before response.
CleanUpEvents_EndFirst(ev, rec) ==
    IF rec THEN ev \o <<"end_control", "response">> ELSE ev

\* _clean_up_fetch calls response, then end_control, of the recorder
\* session.
CleanUpEvents(ev, rec) ==
    IF rec THEN ev \o <<"response", "end_control">> ELSE ev

\* Mutant of FailedEvents: end_control is called when the call fails, too.
FailedEvents_EndControl(ev, rec) ==
    IF rec THEN Append(ev, "end_control") ELSE ev

\* An error leaves fetch and fetch_file_listing without _clean_up_fetch:
\* the recorder session is not called.
FailedEvents(ev, rec) == ev

\* _get_machine_listing and _get_list_listing after the reply: the body is
\* read from the start by the parser.
ParseBody(b) == BodyRead(BodySeek(b, 0))

\* What fetch and fetch_file_listing do with the body once
\* _fetch_with_command has returned the reply.
FinishBody(cmd, b) ==
    CleanUpBody(IF cmd = "RETR" THEN b ELSE ParseBody(b))

\* Mutant of CleanUpReply: the reply is stored only when there is a
\* recorder session.
CleanUpReply_RecorderOnly(s) ==
    IF recorder_session[s] THEN "transfer_complete" ELSE reply[s]

\* _clean_up_fetch stores the reply that read_stream returned.
CleanUpReply(s) == "transfer_complete"

\* Mutant of FinallyBody: the finally block rewinds and truncates the file.
FinallyBody_Reset(b) == BodyTruncate(BodySeek(b, 0))

\* The finally block of _fetch_with_command does not touch the file the
\* data was written to.
FinallyBody(b) == b

\* Mutant of Propagate: every error leaves the call as a ConnectionError.
Propagate_Wrapped(e, rel) == IF e = NoError THEN e ELSE ConnectionError

\* The error the call ends with when e was raised into it and the finally
\* block of _fetch_with_command has run.
Propagate(e, rel) == IF rel.raised THEN CheckInError ELSE e

\* An entry of the history of raised errors: the suspension point, the
\* Command, the error and the bytes written before it.
RaisedRecord(at, cmd, e, n) == [at |-> at, cmd |-> cmd, error |-> e, wrote |-> n]

\* The call continues from the suspension point pc[s] with outcome e0
\* (NoError: read_stream returned a reply) after n bytes were written to
\* the body: the finally block of _fetch_with_command, the except clause
\* of fetch_file_listing, and what follows up to the next suspension point
\* or the end of the call.
Resume(s, e0, n) ==
    LET b0 == IF pc[s] = "read_stream"
              THEN BodyWrite(body[s], Bytes(command[s], n))
              ELSE body[s]
        b1 == FinallyBody(b0)
        rel == Finally(s)
        e == Propagate(e0, rel)
        ok == e = NoError
        caught == ~ok /\ Caught(command[s], e)
        retry == caught /\ Retry(e)
    IN  /\ pool' = rel.pool
        /\ closed' = rel.closed
        /\ data_observer' = [data_observer EXCEPT ![s] = ClearObserver(s)]
        /\ data_connection' = [data_connection EXCEPT ![s] = None]
        /\ data_stream' = [data_stream EXCEPT ![s] = FALSE]
        /\ error' = [error EXCEPT ![s] = IF caught THEN e ELSE @]
        /\ command' = [command EXCEPT ![s] = IF retry THEN "LIST" ELSE @]
        /\ cmds' = [cmds EXCEPT ![s] = IF retry THEN Append(@, "LIST") ELSE @]
        /\ body' = [body EXCEPT ![s] =
                      IF ok THEN FinishBody(command[s], b1)
                      ELSE IF caught THEN ResetBody(b1)
                      ELSE b1]
        /\ files' = [files EXCEPT ![s] =
                      IF ok /\ command[s] # "RETR" THEN command[s] ELSE @]
        /\ reply' = [reply EXCEPT ![s] = IF ok THEN CleanUpReply(s) ELSE @]
        /\ events' = [events EXCEPT ![s] =
                      IF ok THEN CleanUpEvents(@, recorder_session[s])
                      ELSE IF retry THEN @
                      ELSE FailedEvents(@, recorder_session[s])]
        /\ trace' = [trace EXCEPT ![s] =
                      IF ok THEN CleanUpEvents(Append(@, "clean_up"),
                                               recorder_session[s])
                      ELSE IF retry THEN Append(@, "LIST")
                      ELSE FailedEvents(@, recorder_session[s])]
        /\ outcomes' = [outcomes EXCEPT ![s] = Append(@, Outcome(e0, n))]
        /\ released' = [released EXCEPT ![s] = @ \o FinallyOps(s)]
        /\ err' = [err EXCEPT ![s] = IF ok \/ retry THEN @ ELSE e]
        /\ raised' = [raised EXCEPT ![s] =
                      IF e0 = NoError THEN @
                      ELSE Append(@, RaisedRecord(pc[s], command[s], e0, n))]
        /\ pc' = [pc EXCEPT ![s] = IF ok THEN "done"
                                   ELSE IF retry THEN "setup_data_stream"
                                   ELSE "failed"]
        /\ UNCHANGED <<kind, recorder_session, connection, control_observer,
                       calls>>

\* read_stream returns the reply after the data has been written.
read_stream(s) ==
    /\ pc[s] = "read_stream"
    /\ \E n \in 0..MaxBytes : Resume(s, NoError, n)

\* An error is raised into the coroutine at its suspension point: a failure
\* of the awaited operation, or the cancellation of the call.
RaiseInto(s) ==
    /\ pc[s] \in Suspended
    /\ \E e \in FailuresAt(pc[s]) :
         \E n \in 0..MaxBytes :
            /\ n = 0 \/ pc[s] = "read_stream"
            /\ Resume(s, e, n)

\* Errors are raised into the calls of the sessions of Faulty.
Raise(s) == s \in Faulty /\ RaiseInto(s)

\* The number of clean()/close() calls made so far on the sessions of S.
RECURSIVE CallsMade(_)
CallsMade(S) ==
    IF S = {} THEN 0
    ELSE LET s == CHOOSE x \in S : TRUE
         IN  Len(calls[s]) + CallsMade(S \ {s})

\* An entry of the history of clean()/close() calls: the call, the
\* connection it acted on (None: it did nothing), the session the pool had
\* that connection checked out to (0: none), and whether the call raised.
CallRecord(op, c, raises) ==
    [op |-> op, conn |-> c, lent |-> IF c = None THEN 0 ELSE pool.lent[c],
     raised |-> raises]

\* Mutant of CleanPool: clean() does not check the connection in.
CleanPool_Nothing(p, c) == p

\* The pool after clean() on a session whose _connection is c.
CleanPool(p, c) ==
    IF c # None /\ ~CheckInRaises(p, c) THEN check_in(p, c) ELSE p

\* Session.clean
clean(s) ==
    /\ pc[s] \in Ended
    /\ CallsMade(Sessions) < MaxRelease
    /\ LET c == connection[s]
           raises == c # None /\ CheckInRaises(pool, c)
       IN  /\ pool' = CleanPool(pool, c)
           /\ calls' = [calls EXCEPT ![s] =
                          Append(@, CallRecord("clean", c, raises))]
    /\ UNCHANGED <<closed, pc, kind, recorder_session, connection,
                   control_observer, command, cmds, data_connection,
                   data_stream, data_observer, body, files, reply, error,
                   err, events, raised, trace, outcomes,
                   released>>

\* Session.close
close(s) ==
    /\ pc[s] \in Ended
    /\ CallsMade(Sessions) < MaxRelease
    /\ LET c == connection[s]
       IN  /\ closed' = IF c # None THEN closed \cup {c} ELSE closed
           /\ calls' = [calls EXCEPT ![s] =
                          Append(@, CallRecord("close", c, FALSE))]
    /\ UNCHANGED <<pool, pc, kind, recorder_session, connection,
                   control_observer, command, cmds, data_connection,
                   data_stream, data_observer, body, files, reply, error,
                   err, events, raised, trace, outcomes,
                   released>>

Next ==
    \E s \in Sessions :
        \/ fetch(s)
        \/ fetch_file_listing(s)
        \/ init_stream(s)
        \/ log_in(s)
        \/ prepare_fetch(s)
        \/ setup_data_stream(s)
        \/ connection_factory(s)
        \/ open_data_stream(s)
        \/ read_stream(s)
        \/ Raise(s)
        \/ clean(s)
        \/ close(s)

Spec == Init /\ [][Next]_vars

\* The calls alone, with errors raised into the calls of every session.
NextCalls ==
    \E s \in Sessions :
        \/ fetch(s)
        \/ fetch_file_listing(s)
        \/ init_stream(s)
        \/ log_in(s)
        \/ prepare_fetch(s)
        \/ setup_data_stream(s)
        \/ connection_factory(s)
        \/ open_data_stream(s)
        \/ read_stream(s)
        \/ RaiseInto(s)

\* Two calls side by side, to compare a session that has a recorder
\* session with one that has none: session 1 has it, session 2 does not.
InitTwin ==
    /\ recorder_session = [s \in Sessions |-> s = 1]
    /\ InitSessions

SpecTwin == InitTwin /\ [][NextCalls]_vars

\* The operation that the call of session s awaits returns or raises.
Step(s) ==
    \/ init_stream(s)
    \/ log_in(s)
    \/ prepare_fetch(s)
    \/ setup_data_stream(s)
    \/ connection_factory(s)
    \/ open_data_stream(s)
    \/ read_stream(s)
    \/ RaiseInto(s)

\* Every pool and command-channel operation that a call awaits eventually
\* returns or raises.
SpecLive ==
    /\ Init
    /\ [][NextCalls]_vars
    /\ \A s \in Sessions : WF_vars(Step(s))

Bodies == {[data |-> d, pos |-> p] :
             d \in UNION {[1..n -> Commands] : n \in 0..(2 * MaxBytes)},
             p \in 0..(2 * MaxBytes)}

TypeOK ==
    /\ pool.lent \in [Conns -> Sessions \cup {0}]
    /\ pool.ready \subseteq Conns
    /\ closed \subseteq Conns
    /\ pc \in [Sessions -> {"idle"} \cup Suspended \cup Ended]
    /\ kind \in [Sessions -> {"none", "fetch", "listing"}]
    /\ connection \in [Sessions -> Conns \cup {None}]
    /\ data_connection \in [Sessions -> Conns \cup {None}]
    /\ command \in [Sessions -> Commands \cup {"none"}]
    /\ recorder_session \in [Sessions -> BOOLEAN]
    /\ \A s \in Sessions : body[s] \in Bodies
    /\ \A s \in Sessions : err[s] \in Errors \cup {NoError}
    /\ \A s \in Sessions : error[s] \in ServerErrors \cup {NoError}
    /\ \A s \in Sessions : Len(calls[s]) <= MaxRelease
    /\ \A s \in Sessions : Len(raised[s]) <= 2
    /\ data_stream \in [Sessions -> BOOLEAN]
    /\ data_observer \in [Sessions -> BOOLEAN]

\* ------------------------------------------------------------ properties
Range(f) == {f[i] : i \in DOMAIN f}
Last(q) == q[Len(q)]

\* The data connections the pool has checked out to session s.
DataOut(s) == {c \in Conns : IsData(c) /\ pool.lent[c] = s}

\* The open control connections the pool has checked out to session s.
ControlHeld(s) ==
    {c \in Conns : ~IsData(c) /\ pool.lent[c] = s /\ c \notin closed}

\* The data connections session s has acquired and checked in.
DataReturned(s) == {c \in pool.ready : IsData(c) /\ c[2] = s}

\* The call of session s was cancelled.
Cancelled(s) ==
    /\ pc[s] = "failed"
    /\ raised[s] # <<>>
    /\ Last(raised[s]).error = CancelledError

\* The failures of the attempt of session s with Command cmd.
Failures(s, cmd) == {r \in Range(raised[s]) : r.cmd = cmd}

IsFallbackError(e) ==
    /\ e.type = "FTPServerError"
    /\ e.code \in {syntax_error_command_unrecognized, command_not_implemented}

\* C1: once a fetch or fetch_file_listing call has ended, by a response, an
\* error or a cancellation, the pool has no data connection checked out to
\* the session.
C1_NoDataConnectionHeld ==
    \A s \in Sessions : pc[s] \in Ended => DataOut(s) = {}

\* A call was cancelled after connection_factory had acquired the data
\* connection, and has ended.
C1_Witness ==
    \E s \in Sessions :
        /\ Cancelled(s)
        /\ Last(raised[s]).at = "open_data_stream"
        /\ DataReturned(s) # {}

\* C2: whatever way the call ended, once the caller has called clean() or
\* close() on the session, as it does before it discards the session, the
\* pool has no open control connection checked out to the session.
C2_ControlReleased ==
    \A s \in Sessions :
        pc[s] \in Ended /\ calls[s] # <<>> => ControlHeld(s) = {}

\* A call failed at the login, holding the control connection, and clean()
\* was called.
C2_Witness ==
    \E s \in Sessions :
        /\ pc[s] = "failed"
        /\ err[s].type = "AuthenticationError"
        /\ connection[s] # None
        /\ calls[s] # <<>>
        /\ calls[s][1].op = "clean"

\* C3: the LIST Command is handed to _fetch_with_command, after the MLSD
\* Command, exactly when the MLSD attempt failed with an FTPServerError
\* whose reply code is syntax_error_command_unrecognized or
\* command_not_implemented; after an FTPServerError with another code the
\* call has failed with that error and there is no LIST.
C3_FallbackIff ==
    \A s \in Sessions :
        /\ ("LIST" \in Range(cmds[s]))
             <=> (\E r \in Failures(s, "MLSD") : IsFallbackError(r.error))
        /\ "LIST" \in Range(cmds[s]) => cmds[s] = <<"MLSD", "LIST">>
        /\ \A r \in Failures(s, "MLSD") :
             r.error.type = "FTPServerError" /\ ~IsFallbackError(r.error)
                => /\ pc[s] = "failed"
                   /\ err[s] = r.error
                   /\ cmds[s] = <<"MLSD">>

\* The MLSD attempt failed with command_not_implemented and LIST followed.
C3_Witness ==
    \E s \in Sessions :
        /\ cmds[s] = <<"MLSD", "LIST">>
        /\ raised[s][1].error = FTPServerError(command_not_implemented)

\* C4: a fetch_file_listing call hands at most one MLSD and at most one
\* LIST Command to _fetch_with_command, and when the LIST attempt fails the
\* call has failed with the error of the LIST attempt and no Command
\* follows.
C4_SingleShot ==
    \A s \in Sessions :
        /\ cmds[s] \in {<<>>, <<"RETR">>, <<"MLSD">>, <<"MLSD", "LIST">>}
        /\ Failures(s, "LIST") # {}
             => /\ pc[s] = "failed"
                /\ Len(raised[s]) = 2
                /\ Last(raised[s]).cmd = "LIST"
                /\ err[s] = Last(raised[s]).error
                /\ cmds[s] = <<"MLSD", "LIST">>

\* The LIST attempt failed with another error than the MLSD attempt.
C4_Witness ==
    \E s \in Sessions :
        /\ Len(raised[s]) = 2
        /\ raised[s][2].cmd = "LIST"
        /\ raised[s][2].error # raised[s][1].error
        /\ pc[s] = "failed"

\* C5: when the LIST attempt starts, the body has length 0 and position 0,
\* and the body never holds bytes of the MLSD attempt together with bytes
\* of the LIST attempt.
C5_BodyResetOnFallback ==
    \A s \in Sessions :
        /\ command[s] = "LIST" /\ pc[s] = "setup_data_stream"
             => Len(body[s].data) = 0 /\ body[s].pos = 0
        /\ ~({"MLSD", "LIST"} \subseteq Range(body[s].data))

\* The LIST attempt starts after an MLSD attempt that had written bytes.
C5_Witness ==
    \E s \in Sessions :
        /\ command[s] = "LIST"
        /\ pc[s] = "setup_data_stream"
        /\ raised[s][1].wrote > 0

\* C6: after a cancellation at any suspension point the pool has no data
\* connection checked out to the session, the data connections the session
\* has returned are closed, the data observer is not attached, and clean()
\* or close() releases the control connection.
C6_CancelledReleases ==
    \A s \in Sessions :
        Cancelled(s) =>
            /\ err[s] = CancelledError
            /\ DataOut(s) = {}
            /\ DataReturned(s) \subseteq closed
            /\ ~data_observer[s]
            /\ calls[s] # <<>> => ControlHeld(s) = {}

\* A call with a recorder was cancelled in the streamed read, and the
\* session was cleaned.
C6_Witness ==
    \E s \in Sessions :
        /\ Cancelled(s)
        /\ Last(raised[s]).at = "read_stream"
        /\ recorder_session[s]
        /\ DataReturned(s) # {}
        /\ calls[s] # <<>>

\* The clean() calls of session s that called check_in.
CheckIns(s) ==
    {i \in DOMAIN calls[s] : calls[s][i].op = "clean" /\ calls[s][i].conn # None}

\* C7: clean() is idempotent: the clean() calls on a session check the
\* control connection in once, not twice, and a close() does not raise.
C7_CleanIdempotent ==
    \A s \in Sessions :
        /\ Cardinality(CheckIns(s)) <= 1
        /\ \A i \in DOMAIN calls[s] :
             calls[s][i].op = "close" => ~calls[s][i].raised

\* C8: every clean() and close() acts on a connection the pool has checked
\* out to the calling session: never on one the session has returned and
\* that another session may hold.
C8_NoStaleRelease ==
    \A s \in Sessions :
        \A i \in DOMAIN calls[s] :
            calls[s][i].conn # None => calls[s][i].lent = s

\* C9: clean() and close() never raise.
C9_ReleaseNeverRaises ==
    \A s \in Sessions :
        \A i \in DOMAIN calls[s] : ~calls[s][i].raised

\* C10: a connection on which a session has called close(), when no other
\* session held it, is not checked out to another session afterwards.
C10_ClosedNeverReused ==
    \A s \in Sessions :
        \A i \in DOMAIN calls[s] :
            /\ calls[s][i].op = "close"
            /\ calls[s][i].conn # None
            /\ calls[s][i].lent \in {s, 0}
            => pool.lent[calls[s][i].conn] \in {s, 0}

\* The phases of a call, named where they start.
Phases == {"check_out", "reconnect", "login"} \cup Commands \cup {"clean_up"}

IsPhase(x) == x \in Phases

\* The phases session s has started, in order.
PhasesOf(s) == SelectSeq(trace[s], IsPhase)

IsPrefix(p, q) == Len(p) <= Len(q) /\ SubSeq(q, 1, Len(p)) = p

\* The phases of a call that returns a response.
Orders ==
    {<<"check_out", "reconnect", "login">> \o c \o <<"clean_up">> :
        c \in {<<"RETR">>, <<"MLSD">>, <<"MLSD", "LIST">>}}

\* The first n awaited operations of session s have returned.
HaveReturned(s, n) ==
    /\ Len(outcomes[s]) >= n
    /\ \A i \in 1..n : outcomes[s][i] = Returned

\* C11: the phases of a call start in the order check_out of the control
\* connection, reconnect, login, first Command, LIST after a fallback,
\* _clean_up_fetch, none twice; reconnect and login start only once the
\* control connection is checked out, a Command only once login has
\* returned, and a call that returns a response has gone through all of
\* them.
C11_PhaseOrder ==
    \A s \in Sessions :
        /\ \E o \in Orders : IsPrefix(PhasesOf(s), o)
        /\ "reconnect" \in Range(trace[s])
             => HaveReturned(s, 1) /\ connection[s] # None
        /\ cmds[s] # <<>> => HaveReturned(s, 3)
        /\ PhasesOf(s) \in Orders <=> pc[s] = "done"

\* A listing that fell back to LIST has returned its response.
C11_Witness ==
    \E s \in Sessions :
        /\ pc[s] = "done"
        /\ PhasesOf(s) = <<"check_out", "reconnect", "login", "MLSD", "LIST",
                           "clean_up">>

\* C12: the observer that _fetch_with_command adds to the data stream is
\* attached only while read_stream is awaited: it is detached in every
\* state in which _fetch_with_command has exited, by a reply, an error or
\* a cancellation.
C12_ObserverDetached ==
    \A s \in Sessions : data_observer[s] => pc[s] = "read_stream"

\* With a recorder session, read_stream failed after the observer was
\* added.
C12_Witness ==
    \E s \in Sessions :
        /\ recorder_session[s]
        /\ pc[s] = "failed"
        /\ Last(raised[s]).at = "read_stream"
        /\ Last(raised[s]).error = ProtocolError
        /\ ~data_observer[s]

\* An error is raised into the call of session s in this step.
Fails(s) == Len(raised'[s]) > Len(raised[s])

\* C13: when setup_data_stream fails before connection_factory has got a
\* data connection from the pool, the step that ends _fetch_with_command
\* leaves the pool and the set of closed connections as they are, and the
\* session keeps its control connection.
C13_SetupFailureFrame ==
    [][\A s \in Sessions :
          Fails(s) /\ pc[s] \in {"setup_data_stream", "connection_factory"}
             => /\ pool' = pool
                /\ closed' = closed
                /\ connection'[s] = connection[s]]_vars

\* setup_data_stream failed with a server error that ends the call: the
\* control connection is still checked out and open, and the session has
\* neither closed nor checked in a data connection.
C13_Witness ==
    \E s \in Sessions :
        /\ pc[s] = "failed"
        /\ Last(raised[s]).at = "setup_data_stream"
        /\ Last(raised[s]).error = FTPServerError(requested_action_not_taken)
        /\ ControlHeld(s) = {connection[s]}
        /\ \A c \in Conns : IsData(c) /\ c[2] = s
                                => c \notin closed /\ c \notin pool.ready

\* The body as a transfer that failed with record r leaves body b: the
\* bytes written by read_stream before the error, at the position of b.
LeftBy(b, r) ==
    IF r.at = "read_stream" THEN BodyWrite(b, Bytes(r.cmd, r.wrote)) ELSE b

\* C14: when setup_data_stream or read_stream fails, the data connection
\* has been released when the error leaves _fetch_with_command, and the
\* body is as the failed transfer left it: same content, same position.
\* (The body is compared where the error is not caught by the except
\* clause of fetch_file_listing, which resets the body itself.)
C14_SinkLeftAsIs ==
    [][\A s \in Sessions :
          Fails(s) /\ pc[s] \in InFetchWithCommand
             => LET r == Last(raised'[s])
                IN  /\ \A c \in Conns : IsData(c) => pool'.lent[c] # s
                    /\ data_connection[s] # None
                          => data_connection[s] \in closed'
                    /\ ~(r.cmd = "MLSD" /\ r.error.type = "FTPServerError")
                          => /\ pc'[s] = "failed"
                             /\ body'[s] = LeftBy(body[s], r)]_vars

\* A RETR transfer failed after it had written to the body: the call has
\* ended with the body holding what was written.
C14_Witness ==
    \E s \in Sessions :
        /\ pc[s] = "failed"
        /\ Last(raised[s]).at = "read_stream"
        /\ Last(raised[s]).cmd = "RETR"
        /\ Last(raised[s]).wrote > 0
        /\ body[s] = [data |-> Bytes("RETR", Last(raised[s]).wrote),
                      pos |-> Last(raised[s]).wrote]
        /\ DataReturned(s) # {}

\* The login of session s was rejected.
LoginRejected(s) ==
    \E r \in Range(raised[s]) :
        /\ r.at = "login"
        /\ r.error.type \in {"AuthenticationError", "FTPServerError"}

\* The data connections session s has got from the pool so far.
DataAcquired(s) ==
    {c \in Conns : /\ IsData(c)
                   /\ c[2] = s
                   /\ pool.lent[c] # 0 \/ c \in pool.ready \/ c \in closed}

\* C15: when login is rejected, whatever its reply code, the call has
\* failed with that error, which is the only error raised; login was
\* started once, no Command was issued, nothing was caught for a fallback
\* and no data connection was checked out.
C15_LoginRejectedEnds ==
    \A s \in Sessions :
        LoginRejected(s)
           => /\ pc[s] = "failed"
              /\ Len(raised[s]) = 1
              /\ err[s] = raised[s][1].error
              /\ PhasesOf(s) = <<"check_out", "reconnect", "login">>
              /\ cmds[s] = <<>>
              /\ error[s] = NoError
              /\ DataAcquired(s) = {}

\* The login of a listing call was rejected with a reply code for which
\* an MLSD failure would fall back to LIST.
C15_Witness ==
    \E s \in Sessions :
        /\ kind[s] = "listing"
        /\ LoginRejected(s)
        /\ IsFallbackError(raised[s][1].error)
        /\ pc[s] = "failed"

\* C16: a fetch call checks out the control connection, logs in and
\* issues RETR at most once each, and the first error raised into it ends
\* it with that error: nothing is caught and nothing is tried again.
C16_FetchNoRetry ==
    \A s \in Sessions :
        kind[s] = "fetch"
           => /\ IsPrefix(PhasesOf(s), <<"check_out", "reconnect", "login",
                                         "RETR", "clean_up">>)
              /\ IsPrefix(cmds[s], <<"RETR">>)
              /\ raised[s] # <<>>
                   => /\ pc[s] = "failed"
                      /\ Len(raised[s]) = 1
                      /\ err[s] = raised[s][1].error
                      /\ error[s] = NoError
                      /\ reply[s] = "none"

\* A fetch call ended with the server error of its RETR transfer, whose
\* reply code would make a listing fall back.
C16_Witness ==
    \E s \in Sessions :
        /\ kind[s] = "fetch"
        /\ pc[s] = "failed"
        /\ cmds[s] = <<"RETR">>
        /\ raised[s][1].at = "read_stream"
        /\ IsFallbackError(err[s])

\* The control connections the pool has checked out to session s.
ControlOut(s) == {c \in Conns : ~IsData(c) /\ pool.lent[c] = s}

\* C17: the pool has at most one control connection and at most one data
\* connection checked out to a session; when _init_stream awaits the
\* check_out, the session has no connection (assert not self._connection);
\* and while the LIST attempt of a fallback runs, the data connection of
\* the MLSD attempt is closed and back in the pool.
C17_OneConnectionEach ==
    \A s \in Sessions :
        /\ Cardinality(ControlOut(s)) <= 1
        /\ Cardinality(DataOut(s)) <= 1
        /\ pc[s] \in {"idle", "check_out"}
             => connection[s] = None /\ ControlOut(s) = {}
        /\ command[s] = "LIST"
             => \A c \in DataAcquired(s) :
                   c[1] = "MLSD" => c \in closed /\ pool.lent[c] = 0

\* The LIST attempt of a fallback holds its data connection; the MLSD
\* attempt had one, which is back in the pool.
C17_Witness ==
    \E s \in Sessions :
        /\ command[s] = "LIST"
        /\ pc[s] = "read_stream"
        /\ DataOut(s) = {<<"LIST", s>>}
        /\ <<"MLSD", s>> \in DataReturned(s)
        /\ Cardinality(ControlOut(s)) = 1

\* The roles of the connections of S.
Roles(S) == {c[1] : c \in S}

\* What a call of session s has done to the connections it got from the
\* pool: those still checked out, those checked in, those closed.
Releases(s) ==
    [out |-> Roles(ControlOut(s) \cup DataOut(s)),
     ready |-> Roles({c \in pool.ready : c[2] = s}),
     closed |-> Roles({c \in closed : c[2] = s})]

\* C18: a call with a recorder session and a call without one that make
\* the same request and get the same outcomes from the pool and the
\* command channel are at the same point, have started the same phases
\* and issued the same Commands in the same order, have the same error or
\* the same body, files and reply, and have released the same
\* connections.
C18_RecorderTransparent ==
    \A s1, s2 \in Sessions :
        /\ recorder_session[s1]
        /\ ~recorder_session[s2]
        /\ kind[s1] = kind[s2]
        /\ outcomes[s1] = outcomes[s2]
        => /\ pc[s1] = pc[s2]
           /\ PhasesOf(s1) = PhasesOf(s2)
           /\ cmds[s1] = cmds[s2]
           /\ err[s1] = err[s2]
           /\ body[s1] = body[s2]
           /\ files[s1] = files[s2]
           /\ reply[s1] = reply[s2]
           /\ Releases(s1) = Releases(s2)

\* A listing with a recorder session and one without have both fallen
\* back to LIST with the same outcomes and returned their responses;
\* only the first has given events to a recorder session.
C18_Witness ==
    \E s1, s2 \in Sessions :
        /\ recorder_session[s1]
        /\ ~recorder_session[s2]
        /\ outcomes[s1] = outcomes[s2]
        /\ pc[s1] = "done" /\ pc[s2] = "done"
        /\ cmds[s1] = <<"MLSD", "LIST">> /\ cmds[s2] = <<"MLSD", "LIST">>
        /\ body[s1].data # <<>>
        /\ Len(events[s1]) = 4
        /\ events[s2] = <<>>

\* The phases and events of a call with a recorder session that returns
\* a response.
RecordedOrders ==
    {<<"check_out", "begin_control", "reconnect", "login", "pre_response">>
        \o c \o <<"clean_up", "response", "end_control">> :
        c \in {<<"RETR">>, <<"MLSD">>, <<"MLSD", "LIST">>}}

\* C19: with a recorder session, a call that returns a response has
\* given it begin_control, pre_response, response and end_control, once
\* each and in that order: begin_control between the check_out of the
\* control connection and the reconnect and login, pre_response between
\* the login and the first Command, response and end_control in
\* _clean_up_fetch, after the last Command's reply; and at every point of
\* a call the events given so far are in that order.
C19_RecorderEvents ==
    \A s \in Sessions :
        recorder_session[s]
           => /\ \E o \in RecordedOrders : IsPrefix(trace[s], o)
              /\ IsPrefix(events[s], <<"begin_control", "pre_response",
                                       "response", "end_control">>)
              /\ pc[s] = "done"
                   => /\ trace[s] \in RecordedOrders
                      /\ Len(events[s]) = 4

\* With a recorder session, a fetch and a listing that fell back to LIST
\* have returned their responses.
C19_Witness ==
    \E s1, s2 \in Sessions :
        /\ recorder_session[s1] /\ recorder_session[s2]
        /\ pc[s1] = "done" /\ pc[s2] = "done"
        /\ cmds[s1] = <<"MLSD", "LIST">>
        /\ cmds[s2] = <<"RETR">>
        /\ Len(events[s1]) = 4 /\ Len(events[s2]) = 4

\* The listing Commands session s has issued.
ListingCommands(s) == SelectSeq(cmds[s], LAMBDA c : c \in {"MLSD", "LIST"})

\* C20: when every awaited operation eventually returns or raises, every
\* fetch and fetch_file_listing call that has started eventually ends, by
\* a response or by an error, and it never issues more than two listing
\* Commands.
C20_Terminates ==
    /\ \A s \in Sessions : pc[s] = "check_out" ~> pc[s] \in Ended
    /\ [](\A s \in Sessions : Len(ListingCommands(s)) <= 2)

\* A listing has ended after two listing Commands, one by a response and
\* one by the error of its LIST attempt.
C20_Witness ==
    \E s1, s2 \in Sessions :
        /\ pc[s1] = "done"
        /\ pc[s2] = "failed"
        /\ Len(ListingCommands(s1)) = 2
        /\ Len(ListingCommands(s2)) = 2

\* The positions of operation op on connection c in the history of what
\* the finally blocks of session s did.
At(s, op, c) == {i \in DOMAIN released[s] : released[s][i] = <<op, c>>}

\* C21: every data connection that _fetch_with_command has acquired and
\* left was closed once and checked in once, the close() first; the
\* observers of its data stream, if it had one, were cleared once, before
\* the close(); and a data connection still in use has not been released.
C21_ReleaseOrder ==
    \A s \in Sessions :
        \A c \in DataAcquired(s) :
            IF c = data_connection[s]
            THEN At(s, "clear", c) \cup At(s, "close", c)
                    \cup At(s, "check_in", c) = {}
            ELSE /\ Cardinality(At(s, "close", c)) = 1
                 /\ Cardinality(At(s, "check_in", c)) = 1
                 /\ Cardinality(At(s, "clear", c)) <= 1
                 /\ \A i \in At(s, "close", c) :
                       /\ \A j \in At(s, "check_in", c) : i < j
                       /\ \A j \in At(s, "clear", c) : j < i
                 /\ c \in closed
                 /\ pool.lent[c] = 0

\* A listing fell back to LIST and returned its response: both data
\* connections were released, each after its stream's observers were
\* cleared.
C21_Witness ==
    \E s \in Sessions :
        /\ pc[s] = "done"
        /\ released[s] = <<<<"clear", <<"MLSD", s>>>>,
                           <<"close", <<"MLSD", s>>>>,
                           <<"check_in", <<"MLSD", s>>>>,
                           <<"clear", <<"LIST", s>>>>,
                           <<"close", <<"LIST", s>>>>,
                           <<"check_in", <<"LIST", s>>>>>>

\* The MLSD attempt of session s failed with an FTPServerError whose reply
\* code is not one that fetch_file_listing falls back for.
MLSDRefused(s) ==
    /\ raised[s] # <<>>
    /\ raised[s][1].cmd = "MLSD"
    /\ raised[s][1].error.type = "FTPServerError"
    /\ raised[s][1].error.code \notin FallbackCodes

\* C22: when the MLSD attempt fails with an FTPServerError whose reply
\* code is not a fallback code, the call ends with that error, without a
\* LIST attempt, and with the body emptied: length 0, position 0,
\* whatever the MLSD transfer had written.
C22_ResetBeforeReraise ==
    \A s \in Sessions :
        MLSDRefused(s)
           => /\ pc[s] = "failed"
              /\ err[s] = raised[s][1].error
              /\ error[s] = raised[s][1].error
              /\ Len(raised[s]) = 1
              /\ cmds[s] = <<"MLSD">>
              /\ body[s] = EmptyBody

\* The MLSD transfer was refused after it had written to the body.
C22_Witness ==
    \E s \in Sessions :
        /\ MLSDRefused(s)
        /\ raised[s][1].at = "read_stream"
        /\ raised[s][1].wrote > 0
        /\ pc[s] = "failed"
        /\ body[s] = EmptyBody

\* The failures of the MLSD attempt of session s that are no
\* FTPServerError: connection errors, protocol errors, cancellation.
OtherMLSDFailures(s) ==
    {r \in Failures(s, "MLSD") : r.error.type # "FTPServerError"}

\* C23: a LIST attempt is started only after an FTPServerError of the MLSD
\* attempt; when the MLSD attempt fails with any other error, the call
\* ends with that error, nothing is caught, no LIST Command is issued, and
\* the body is as the MLSD transfer left it, not reset.
C23_OnlyServerErrorFallsBack ==
    \A s \in Sessions :
        /\ "LIST" \in Range(cmds[s])
             => /\ raised[s] # <<>>
                /\ raised[s][1].cmd = "MLSD"
                /\ raised[s][1].error.type = "FTPServerError"
        /\ \A r \in OtherMLSDFailures(s) :
              /\ pc[s] = "failed"
              /\ raised[s] = <<r>>
              /\ err[s] = r.error
              /\ error[s] = NoError
              /\ cmds[s] = <<"MLSD">>
              /\ body[s] = LeftBy(EmptyBody, r)

\* The MLSD transfer ended with a protocol error after it had written to
\* the body, and the body still holds what was written.
C23_Witness ==
    \E s \in Sessions :
        \E r \in OtherMLSDFailures(s) :
            /\ r.error = ProtocolError
            /\ r.wrote > 0
            /\ pc[s] = "failed"
            /\ body[s].data = Bytes("MLSD", r.wrote)
            /\ body[s].pos = r.wrote

\* The positions of event ev in the events session s has given to its
\* recorder session.
EventAt(s, ev) == {i \in DOMAIN events[s] : events[s][i] = ev}

\* C24: response and end_control are given to the recorder session only
\* by a call that returns a response; a call that has not returned one,
\* and a call that failed in particular, has given neither; and every
\* end_control comes after a begin_control of the same call.
C24_EndOnlyOnSuccess ==
    \A s \in Sessions :
        /\ EventAt(s, "response") \cup EventAt(s, "end_control") # {}
             => pc[s] = "done"
        /\ pc[s] = "failed"
             => IsPrefix(events[s], <<"begin_control", "pre_response">>)
        /\ \A i \in EventAt(s, "end_control") :
              \E j \in EventAt(s, "begin_control") : j < i

\* With a recorder session, the LIST attempt of a fallback failed: the
\* call has ended with a begin_control that no end_control follows.
C24_Witness ==
    \E s \in Sessions :
        /\ recorder_session[s]
        /\ pc[s] = "failed"
        /\ Len(raised[s]) = 2
        /\ events[s] = <<"begin_control", "pre_response">>

====
